---- MODULE Spec2Model ----
(***************************************************************************)
(* The text-patch engine of forge_services (tools/patch.rs):               *)
(* Range::find_exact locates the leftmost exact occurrence of a pattern    *)
(* and apply_replacement splices content around or in place of it;         *)
(* ApplyPatchJson::call reads a file, patches it, writes it back and       *)
(* reports the change.                                                     *)
(*                                                                         *)
(* A Rust String is modelled as its UTF-8 byte sequence.  The alphabet has *)
(* two one-byte characters ('a', 'b') and one two-byte character ('é' =    *)
(* 0xC3 0xA9), so byte offsets and character boundaries differ.            *)
(***************************************************************************)
EXTENDS Integers, Sequences, FiniteSets, TLC

VARIABLES source, search, operation, content, result, pc

\* ApplyPatchJson::call: the stored text of the file, the log of what the call
\* asked of its collaborators, the locals of the call and its return value
VARIABLES file, io, local, ret

\* ToolResponseData::to_front_matter and from_front_matter: the data and
\* content given, the text made of them or given, and what is parsed back
VARIABLE fm

\* ToolResult: the value the builder calls are made on, with the calls made
\* so far, and the text it is displayed as
VARIABLE tr

\* update_config: base, the other it is merged with, and the calls made
VARIABLE upd

patchVars == <<source, search, operation, content, result, pc>>

callVars == <<file, io, local, ret>>

vars == <<patchVars, callVars, fm, tr, upd>>

(* ------------------------------ bounds --------------------------------- *)

\* longest source text, in bytes
MaxSrcLen == 5
\* longest search / content text, in bytes
MaxPatLen == 2
\* longest stored file text of a call, in bytes
MaxFileLen == 3
\* largest number held by a numeric field of a ToolResponseData
MaxNum == 1
\* most lines of a content put behind a front matter
MaxLines == 3
\* most lines between the delimiters of a text given to from_front_matter
MaxCauses == 2
MaxCalls == 3
MaxUpdates == 2
MaxBodyLines == 2

(* ------------------------- UTF-8 text as bytes -------------------------- *)

\* the characters of the alphabet, each as its UTF-8 encoding
Chars == {<<97>>, <<98>>, <<195, 169>>}

\* every valid UTF-8 text of exactly n bytes
RECURSIVE TextsOfLen(_)
TextsOfLen(n) ==
    IF n = 0 THEN {<<>>}
    ELSE UNION {{t \o c : t \in TextsOfLen(n - Len(c))} : c \in {d \in Chars : Len(d) <= n}}

\* every valid UTF-8 text of at most n bytes
Texts(n) == UNION {TextsOfLen(k) : k \in 0..n}

\* a byte of the form 10xxxxxx continues a multi-byte character
IsContinuation(b) == b >= 128 /\ b < 192

\* str::is_char_boundary
is_char_boundary(s, i) ==
    \/ i = 0
    \/ i = Len(s)
    \/ i > 0 /\ i < Len(s) /\ ~IsContinuation(s[i + 1])

(* ------------------------------ Range ---------------------------------- *)

None == [some |-> FALSE, start |-> 0, length |-> 0]

Range_new(start, length) == [some |-> TRUE, start |-> start, length |-> length]

end(r) == r.start + r.length

\* does pattern sit in s at byte offset i (0-based)
MatchesAt(s, pattern, i) ==
    /\ i + Len(pattern) <= Len(s)
    /\ \A k \in 1..Len(pattern) : s[i + k] = pattern[k]

\* str::find: forward scan over byte offsets, first hit wins
RECURSIVE str_find_from(_, _, _)
str_find_from(s, pattern, i) ==
    IF i + Len(pattern) > Len(s) THEN -1
    ELSE IF MatchesAt(s, pattern, i) THEN i
    ELSE str_find_from(s, pattern, i + 1)

\* faulty variant: the scan keeps going and the last hit wins (rfind)
str_find_last(s, pattern) ==
    LET hits == {i \in 0..Len(s) : MatchesAt(s, pattern, i)}
    IN  IF hits = {} THEN -1 ELSE CHOOSE i \in hits : \A j \in hits : j <= i

str_find(s, pattern) == str_find_from(s, pattern, 0)

\* faulty variant: an empty pattern is reported as not found
find_exact_rejects_empty(src, pattern) ==
    LET start == str_find(src, pattern)
    IN  IF start < 0 \/ pattern = <<>> THEN None ELSE Range_new(start, Len(pattern))

\* faulty variant: the length of the Range counts characters, not bytes
find_exact_char_len(src, pattern) ==
    LET start == str_find(src, pattern)
    IN  IF start < 0 THEN None
        ELSE Range_new(start, Cardinality({i \in 1..Len(pattern) : ~IsContinuation(pattern[i])}))

find_exact(src, pattern) ==
    LET start == str_find(src, pattern)
    IN  IF start < 0 THEN None ELSE Range_new(start, Len(pattern))

(* ------------------------- results and slicing -------------------------- *)

Operation == {"Prepend", "Append", "Replace", "Swap"}

Ok(text) == [kind |-> "Ok", text |-> text]
NoMatch(pattern) == [kind |-> "NoMatch", text |-> pattern]
NoSwapTarget(pattern) == [kind |-> "NoSwapTarget", text |-> pattern]
\* a slice that is out of range or off a character boundary aborts the call
Panic == [kind |-> "Panic", text |-> <<>>]
\* the placeholder a patch carries before it is executed
NotExecuted == [kind |-> "NotExecuted", text |-> <<>>]

\* &s[lo..hi] with 0-based byte offsets; FALSE marks an abort
SliceOk(s, lo, hi) ==
    /\ lo <= hi
    /\ hi <= Len(s)
    /\ is_char_boundary(s, lo)
    /\ is_char_boundary(s, hi)

Slice(s, lo, hi) == SubSeq(s, lo + 1, hi)

RECURSIVE Concat(_)
Concat(parts) == IF parts = <<>> THEN <<>> ELSE Head(parts) \o Concat(Tail(parts))

\* format!("{}{}..", pieces): each piece is a literal text [lit |-> t] or a
\* slice of s [lo |-> a, hi |-> b]; one bad slice aborts the whole call
Format(s, pieces) ==
    IF \E k \in 1..Len(pieces) :
            "lo" \in DOMAIN pieces[k] /\ ~SliceOk(s, pieces[k].lo, pieces[k].hi)
    THEN Panic
    ELSE Ok(Concat([k \in 1..Len(pieces) |->
                IF "lo" \in DOMAIN pieces[k]
                THEN Slice(s, pieces[k].lo, pieces[k].hi)
                ELSE pieces[k].lit]))

Lit(t) == [lit |-> t]
Sl(lo, hi) == [lo |-> lo, hi |-> hi]

(* -------------------------- apply_replacement --------------------------- *)

\* faulty variant: an empty search appends where it should prepend and back
empty_search_edges_mixed(src, op, cont) ==
    CASE op = "Append"  -> Ok(cont \o src)
      [] op = "Prepend" -> Ok(src \o cont)
      [] op = "Replace" -> Ok(cont)
      [] op = "Swap"    -> Ok(src)

\* the empty-search fast path
empty_search(src, op, cont) ==
    CASE op = "Append"  -> Ok(src \o cont)
      [] op = "Prepend" -> Ok(cont \o src)
      [] op = "Replace" -> Ok(cont)
      [] op = "Swap"    -> Ok(src)

prepend_arm(src, patch, cont) ==
    Format(src, <<Sl(0, patch.start), Lit(cont), Sl(patch.start, Len(src))>>)

\* faulty variant: Append splices before the match, as Prepend does
append_arm_at_start(src, patch, cont) ==
    Format(src, <<Sl(0, patch.start), Lit(cont), Sl(patch.start, Len(src))>>)

append_arm(src, patch, cont) ==
    Format(src, <<Sl(0, end(patch)), Lit(cont), Sl(end(patch), Len(src))>>)

\* faulty variant: Replace keeps the matched text behind the content
replace_arm_keeps_match(src, patch, cont) ==
    Format(src, <<Sl(0, patch.start), Lit(cont), Sl(patch.start, Len(src))>>)

replace_arm(src, patch, cont) ==
    Format(src, <<Sl(0, patch.start), Lit(cont), Sl(end(patch), Len(src))>>)

\* faulty variant: a start counts as inside the other range only strictly
\* after that range's start
overlaps_strict(patch, target_patch) ==
    \/ patch.start < target_patch.start /\ end(patch) > target_patch.start
    \/ target_patch.start < patch.start /\ end(target_patch) > patch.start

\* faulty variant: only a target starting inside the match counts as an overlap
overlaps_one_sided(patch, target_patch) ==
    patch.start <= target_patch.start /\ end(patch) > target_patch.start

overlaps(patch, target_patch) ==
    \/ patch.start <= target_patch.start /\ end(patch) > target_patch.start
    \/ target_patch.start <= patch.start /\ end(target_patch) > patch.start

\* faulty variant: with the target first, the two texts are written back in their
\* old order
swap_disjoint_target_first_unswapped(src, patch, target_patch, cont) ==
    IF patch.start < target_patch.start
    THEN Format(src, <<Sl(0, patch.start), Lit(cont),
                       Sl(end(patch), target_patch.start),
                       Sl(patch.start, end(patch)),
                       Sl(end(target_patch), Len(src))>>)
    ELSE Format(src, <<Sl(0, target_patch.start),
                       Lit(cont),
                       Sl(end(target_patch), patch.start),
                       Sl(patch.start, end(patch)),
                       Sl(end(patch), Len(src))>>)

\* faulty variant: with the match first, the text after the target is taken from the
\* end of the match
swap_disjoint_tail_from_match(src, patch, target_patch, cont) ==
    IF patch.start < target_patch.start
    THEN Format(src, <<Sl(0, patch.start), Lit(cont),
                       Sl(end(patch), target_patch.start),
                       Sl(patch.start, end(patch)),
                       Sl(end(patch), Len(src))>>)
    ELSE Format(src, <<Sl(0, target_patch.start),
                       Sl(patch.start, end(patch)),
                       Sl(end(target_patch), patch.start),
                       Lit(cont),
                       Sl(end(patch), Len(src))>>)

swap_disjoint(src, patch, target_patch, cont) ==
    IF patch.start < target_patch.start
    THEN Format(src, <<Sl(0, patch.start), Lit(cont),
                       Sl(end(patch), target_patch.start),
                       Sl(patch.start, end(patch)),
                       Sl(end(target_patch), Len(src))>>)
    ELSE Format(src, <<Sl(0, target_patch.start),
                       Sl(patch.start, end(patch)),
                       Sl(end(target_patch), patch.start),
                       Lit(cont),
                       Sl(end(patch), Len(src))>>)

\* faulty variant: a missing swap target falls back to an ordinary replacement
swap_arm_missing_target_replaces(src, patch, cont) ==
    LET target_patch == find_exact(src, cont)
    IN  IF ~target_patch.some \/ overlaps(patch, target_patch)
        THEN Format(src, <<Sl(0, patch.start), Lit(cont), Sl(end(patch), Len(src))>>)
        ELSE swap_disjoint(src, patch, target_patch, cont)

swap_arm(src, patch, cont) ==
    LET target_patch == find_exact(src, cont)
    IN  IF ~target_patch.some THEN NoSwapTarget(cont)
        ELSE IF overlaps(patch, target_patch)
             THEN Format(src, <<Sl(0, patch.start), Lit(cont), Sl(end(patch), Len(src))>>)
             ELSE swap_disjoint(src, patch, target_patch, cont)

\* the pattern-anchored path: locate search, then act on the match
anchored(src, srch, op, cont) ==
    LET patch == find_exact(src, srch)
    IN  IF ~patch.some THEN NoMatch(srch)
        ELSE CASE op = "Prepend" -> prepend_arm(src, patch, cont)
               [] op = "Append"  -> append_arm(src, patch, cont)
               [] op = "Replace" -> replace_arm(src, patch, cont)
               [] op = "Swap"    -> swap_arm(src, patch, cont)

\* faulty variant: Swap looks for its target before it looks for the match
apply_replacement_target_first(src, srch, op, cont) ==
    IF srch = <<>> THEN empty_search(src, op, cont)
    ELSE IF op = "Swap" /\ ~find_exact(src, cont).some THEN NoSwapTarget(cont)
    ELSE anchored(src, srch, op, cont)

apply_replacement(src, srch, op, cont) ==
    IF srch = <<>> THEN empty_search(src, op, cont)
    ELSE anchored(src, srch, op, cont)

(* ------------------------- ToolResponseData ----------------------------- *)

\* a serde_json::Value / an Option field: one shape for every kind of value
Null == [t |-> "null", n |-> 0, s |-> ""]
Num(k) == [t |-> "num", n |-> k, s |-> ""]
Str(x) == [t |-> "str", n |-> 0, s |-> x]

Bool(b) == [t |-> "bool", n |-> IF b THEN 1 ELSE 0, s |-> ""]

\* an empty metadata map
NoMetadata == [k \in {} |-> Null]

\* ToolResponseData::file_read
file_read(path) ==
    [type |-> "file_read",
     fields |-> [path |-> Str(path), total_lines |-> Null],
     metadata |-> NoMetadata]

\* ToolResponseData::file_write
file_write(path) ==
    [type |-> "file_write",
     fields |-> [path |-> Str(path), bytes_written |-> Null, was_update |-> Null],
     metadata |-> NoMetadata]

\* ToolResponseData::shell
shell(command) ==
    [type |-> "shell",
     fields |-> [command |-> Str(command), exit_code |-> Null],
     metadata |-> NoMetadata]

\* ToolResponseData::generic
generic == [type |-> "generic", fields |-> NoMetadata, metadata |-> NoMetadata]

\* ToolResponseData::with_metadata: HashMap::insert on the variant's metadata
with_metadata(d, key, value) ==
    [d EXCEPT !.metadata =
        [k \in DOMAIN d.metadata \cup {key} |-> IF k = key THEN value ELSE d.metadata[k]]]

\* ToolResponseData::with_total_lines
with_total_lines(d, total_lines) ==
    IF d.type = "file_read" THEN [d EXCEPT !.fields.total_lines = Num(total_lines)] ELSE d

\* ToolResponseData::with_bytes_written
with_bytes_written(d, bytes_written) ==
    IF d.type = "file_write" THEN [d EXCEPT !.fields.bytes_written = Num(bytes_written)] ELSE d

\* ToolResponseData::with_was_update
with_was_update(d, was_update) ==
    IF d.type = "file_write" THEN [d EXCEPT !.fields.was_update = Bool(was_update)] ELSE d

\* ToolResponseData::with_exit_code
with_exit_code(d, exit_code) ==
    IF d.type = "shell" THEN [d EXCEPT !.fields.exit_code = Num(exit_code)] ELSE d

\* ToolResponseData::patch
patch(path) ==
    [type |-> "patch",
     fields |-> [path |-> Str(path), total_chars |-> Null, warning |-> Null],
     metadata |-> NoMetadata]

\* ToolResponseData::with_total_chars
with_total_chars(d, total_chars) ==
    IF d.type = "patch" THEN [d EXCEPT !.fields.total_chars = Num(total_chars)] ELSE d

\* ToolResponseData::with_warning
with_warning(d, warning) ==
    IF d.type = "patch" THEN [d EXCEPT !.fields.warning = Str(warning)] ELSE d

\* Option<ToolResponseData>::None
NoData == [type |-> "none", fields |-> NoMetadata, metadata |-> NoMetadata]

NoLocals ==
    [old_content |-> <<>>, current_content |-> <<>>, diff |-> <<>>,
     tool_data |-> NoData, response |-> <<>>]

NoIo == [reads |-> 0, writes |-> <<>>, sent |-> <<>>]

Pending == [kind |-> "Pending", why |-> ""]

(* ------------------------------ front matter ---------------------------- *)

\* A text is a sequence of symbols: a single character, or the text of one
\* YAML line "key: scalar" (which holds no line break and is never "---").
Ch(c) == [kv |-> FALSE, k |-> c, quoted |-> FALSE, text |-> ""]
NL == Ch("\n")
Dash == Ch("-")
Line(key, scalar) == [kv |-> TRUE, k |-> key, quoted |-> scalar.quoted, text |-> scalar.text]

\* "---\n"
Delim == <<Dash, Dash, Dash, NL>>
\* "\n---\n"
EndDelim == <<NL, Dash, Dash, Dash, NL>>

\* what YAML reads an unquoted scalar as
plain_scalar(text) ==
    IF text \in {"", "null"} THEN Null
    ELSE IF text \in {"true", "false"} THEN Bool(text = "true")
    ELSE IF \E n \in 0..MaxNum : ToString(n) = text
         THEN Num(CHOOSE n \in 0..MaxNum : ToString(n) = text)
    ELSE Str(text)

\* serde_yml writes a scalar: a string that would read as something else is quoted
yaml_scalar(v) ==
    CASE v.t = "null" -> [quoted |-> FALSE, text |-> "null"]
      [] v.t = "num"  -> [quoted |-> FALSE, text |-> ToString(v.n)]
      [] v.t = "bool" -> [quoted |-> FALSE, text |-> IF v.n = 1 THEN "true" ELSE "false"]
      [] v.t = "str"  -> [quoted |-> plain_scalar(v.s).t # "str", text |-> v.s]

\* serde_yml reads a scalar
read_scalar(line) == IF line.quoted THEN Str(line.text) ELSE plain_scalar(line.text)

\* the keys of a JSON object in the order serde_json keeps them (sorted)
KeyOrder ==
    <<"bytes_written", "command", "encoding", "exit_code", "path", "total_chars",
      "total_lines", "type", "warning", "was_update">>

\* serde_json::to_value of the internally tagged enum: the tag, then the
\* fields of the variant, then the flattened metadata, each entry inserted
\* into one map, a later entry replacing an earlier one of the same key
to_value(d) ==
    [k \in {"type"} \cup DOMAIN d.fields \cup DOMAIN d.metadata |->
        IF k \in DOMAIN d.metadata THEN d.metadata[k]
        ELSE IF k \in DOMAIN d.fields THEN d.fields[k]
        ELSE Str(d.type)]

\* serde_yml::to_string of a JSON object: one line per key
to_yaml(obj) ==
    LET keys == SelectSeq(KeyOrder, LAMBDA k : k \in DOMAIN obj)
    IN  Concat([i \in 1..Len(keys) |-> <<Line(keys[i], yaml_scalar(obj[keys[i]])), NL>>])

to_front_matter(d, content_str) ==
    Delim \o to_yaml(to_value(d)) \o Delim \o content_str

\* the fields of each variant: the kind of value and whether it is required
FieldSpec ==
    [file_read  |-> [path |-> "str", total_lines |-> "num"],
     file_write |-> [path |-> "str", bytes_written |-> "num", was_update |-> "bool"],
     shell      |-> [command |-> "str", exit_code |-> "num"],
     patch      |-> [path |-> "str", total_chars |-> "num", warning |-> "str"],
     generic    |-> NoMetadata]

\* the fields that are not an Option
Required == {"path", "command"}

\* serde_yml::from_str::<serde_json::Value>: an object when the body is made of
\* "key: scalar" lines (and empty lines), FALSE otherwise
from_yaml(yaml_content) ==
    LET at == {i \in 1..Len(yaml_content) : yaml_content[i].kv}
        wellFormed ==
            /\ at # {}
            /\ \A i \in 1..Len(yaml_content) : yaml_content[i].kv \/ yaml_content[i] = NL
            /\ \A i \in at : (i + 1) \notin at
        keys == {yaml_content[i].k : i \in at}
        last(k) == CHOOSE i \in at :
                      /\ yaml_content[i].k = k
                      /\ \A j \in at : yaml_content[j].k = k => j <= i
    IN  IF wellFormed
        THEN [ok |-> TRUE, obj |-> [k \in keys |-> read_scalar(yaml_content[last(k)])]]
        ELSE [ok |-> FALSE, obj |-> NoMetadata]

\* serde_json::from_value::<ToolResponseData>: the tag picks the variant, its
\* fields are taken by name and type, every other key goes to the metadata
from_value(obj) ==
    IF \/ "type" \notin DOMAIN obj
       \/ obj["type"].t # "str"
       \/ obj["type"].s \notin DOMAIN FieldSpec
    THEN NoData
    ELSE LET ty == obj["type"].s
             spec == FieldSpec[ty]
             bad(f) == IF f \in Required
                       THEN f \notin DOMAIN obj \/ obj[f].t # spec[f]
                       ELSE f \in DOMAIN obj /\ obj[f].t \notin {spec[f], "null"}
         IN  IF \E f \in DOMAIN spec : bad(f) THEN NoData
             ELSE [type |-> ty,
                   fields |-> [f \in DOMAIN spec |-> IF f \in DOMAIN obj THEN obj[f] ELSE Null],
                   metadata |-> [k \in DOMAIN obj \ ({"type"} \cup DOMAIN spec) |-> obj[k]]]

\* str::starts_with
starts_with(text, prefix) ==
    Len(text) >= Len(prefix) /\ SubSeq(text, 1, Len(prefix)) = prefix

\* faulty variant: the text after the front matter is returned from the
\* closing delimiter on, not from behind it
from_front_matter_keeps_delimiter(text) ==
    IF ~starts_with(text, Delim) THEN [data |-> NoData, content |-> text]
    ELSE LET end_index == str_find(SubSeq(text, 5, Len(text)), EndDelim)
             yaml_end == 4 + end_index
             yaml == from_yaml(SubSeq(text, 5, yaml_end))
         IN  IF end_index < 0 THEN [data |-> NoData, content |-> text]
             ELSE [data |-> IF yaml.ok THEN from_value(yaml.obj) ELSE NoData,
                   content |-> SubSeq(text, yaml_end + 2, Len(text))]

from_front_matter(text) ==
    IF ~starts_with(text, Delim) THEN [data |-> NoData, content |-> text]
    ELSE LET end_index == str_find(SubSeq(text, 5, Len(text)), EndDelim)
             yaml_end == 4 + end_index
             yaml == from_yaml(SubSeq(text, 5, yaml_end))
         IN  IF end_index < 0 THEN [data |-> NoData, content |-> text]
             ELSE [data |-> IF yaml.ok THEN from_value(yaml.obj) ELSE NoData,
                   content |-> SubSeq(text, yaml_end + 6, Len(text))]

\* the variable fm while no front matter is modelled
NoFm == [stage |-> "off", given |-> FALSE, data |-> NoData, content |-> <<>>,
         text |-> <<>>, out |-> [data |-> NoData, content |-> <<>>]]

(* ------------------------------ ToolResult ------------------------------ *)

\* Option<ToolCallId>
NoCallId == [some |-> FALSE, id |-> ""]
SomeCallId(id) == [some |-> TRUE, id |-> id]

\* ToolResult::new(name)
new(name) ==
    [name |-> name, call_id |-> NoCallId, content |-> <<>>, is_error |-> FALSE,
     data |-> NoData]

\* ToolResult::from(ToolCallFull)
from(name, id) ==
    [name |-> name, call_id |-> id, content |-> <<>>, is_error |-> FALSE,
     data |-> NoData]

\* the setter of call_id (strip_option)
call_id(self, id) == [self EXCEPT !.call_id = SomeCallId(id)]

success(self, c) == [self EXCEPT !.content = c, !.is_error = FALSE]

\* the causes of err.chain(), outermost first, one line each
RECURSIVE CausedBy(_)
CausedBy(chain) ==
    IF chain = <<>> THEN <<>>
    ELSE <<Ch("Caused by: "), Ch(Head(chain)), NL>> \o CausedBy(Tail(chain))

failure(self, chain) ==
    [self EXCEPT !.content = <<NL, Ch("ERROR:"), NL>> \o CausedBy(chain),
                 !.is_error = TRUE]

with_data(self, d) == [self EXCEPT !.data = d]

\* faulty variant: a response with data counts as a success
with_frontmatter_response_clears_error(self, d, c) ==
    [self EXCEPT !.content = c, !.data = d, !.is_error = FALSE]

with_frontmatter_response(self, d, c) == [self EXCEPT !.content = c, !.data = d]

\* faulty variant: an error is always displayed in the XML form
Display_error_as_xml(self) ==
    IF self.data # NoData /\ ~self.is_error THEN to_front_matter(self.data, self.content)
    ELSE <<Ch("<forge_tool_result>"),
           Ch("<forge_tool_name>"), Ch(self.name), Ch("</forge_tool_name>")>>
         \o (IF self.is_error
             THEN <<Ch("<e>"), Ch("<![CDATA[")>> \o self.content \o <<Ch("]]>"), Ch("</e>")>>
             ELSE <<Ch("<success>"), Ch("<![CDATA[")>> \o self.content
                      \o <<Ch("]]>"), Ch("</success>")>>)
         \o <<Ch("</forge_tool_result>")>>

\* impl Display for ToolResult
Display(self) ==
    IF self.data # NoData THEN to_front_matter(self.data, self.content)
    ELSE <<Ch("<forge_tool_result>"),
           Ch("<forge_tool_name>"), Ch(self.name), Ch("</forge_tool_name>")>>
         \o (IF self.is_error
             THEN <<Ch("<e>"), Ch("<![CDATA[")>> \o self.content \o <<Ch("]]>"), Ch("</e>")>>
             ELSE <<Ch("<success>"), Ch("<![CDATA[")>> \o self.content
                      \o <<Ch("]]>"), Ch("</success>")>>)
         \o <<Ch("</forge_tool_result>")>>

\* the last call made on the ToolResult and its arguments
NoCall == [op |-> "none", c |-> <<>>, chain |-> <<>>]

\* the variable tr while no ToolResult is modelled
NoTr ==
    [self |-> new(""), calls |-> 0, outcome |-> "none", last |-> NoCall,
     before |-> new(""), shown |-> FALSE, text |-> <<>>]

(* ----------------------------- update_config ----------------------------- *)

\* Option<Update>, whose fields are Option<UpdateFrequency> and Option<bool>
NoUpdate == [some |-> FALSE, check_frequency |-> "none", auto_update |-> "none"]
SomeUpdate(f, a) == [some |-> TRUE, check_frequency |-> f, auto_update |-> a]

\* Update::default()
DefaultUpdate == SomeUpdate("none", "none")

\* faulty variant: the fields that other leaves unset are cleared in base
update_config_takes_other(base, other) ==
    IF other.some THEN other ELSE base

\* the value of *base after update_config(&mut base, other)
update_config(base, other) ==
    IF other.some
    THEN LET update == IF base.some THEN base ELSE DefaultUpdate
             update1 == IF other.auto_update # "none"
                        THEN [update EXCEPT !.auto_update = other.auto_update]
                        ELSE update
             update2 == IF other.check_frequency # "none"
                        THEN [update1 EXCEPT !.check_frequency = other.check_frequency]
                        ELSE update1
         IN  update2
    ELSE base

\* the variable upd while update_config is not modelled
NoUpd == [base |-> NoUpdate, other |-> NoUpdate, before |-> NoUpdate,
          calls |-> 0, again |-> FALSE]

(* ----------------- the state machine of apply_replacement --------------- *)

Init ==
    /\ source \in Texts(MaxSrcLen)
    /\ search \in Texts(MaxPatLen)
    /\ content \in Texts(MaxPatLen)
    /\ operation \in Operation
    /\ result = NotExecuted
    /\ pc = "ready"
    /\ file = <<>>
    /\ io = NoIo
    /\ local = NoLocals
    /\ ret = Pending
    /\ fm = NoFm
    /\ tr = NoTr
    /\ upd = NoUpd

\* one call of apply_replacement on the inputs drawn
Apply ==
    /\ pc = "ready"
    /\ result' = apply_replacement(source, search, operation, content)
    /\ pc' = "done"
    /\ UNCHANGED <<source, search, operation, content>>
    /\ UNCHANGED <<callVars, fm, tr, upd>>

Next == Apply

Spec == Init /\ [][Next]_vars

TypeOK ==
    /\ pc \in {"ready", "done"}
    /\ result.kind \in {"Ok", "NoMatch", "NoSwapTarget", "Panic", "NotExecuted"}
    /\ pc = "ready" <=> result = NotExecuted

(* -------------------------- ApplyPatchJson::call ------------------------ *)

Err(why) == [kind |-> "Err", why |-> why]
Returned == [kind |-> "Ok", why |-> ""]

\* the path the call patches
ThePath == "/f"

\* a call on a file holding source, with the patch (search, operation, content)
InitCall ==
    /\ source \in Texts(MaxFileLen)
    /\ search \in Texts(MaxPatLen)
    /\ content \in Texts(MaxPatLen)
    /\ operation \in Operation
    /\ result = NotExecuted
    /\ pc = "call"
    /\ file = source
    /\ io = NoIo
    /\ local = NoLocals
    /\ ret = Pending
    /\ fm = NoFm
    /\ tr = NoTr
    /\ upd = NoUpd

\* assert_absolute_path, then fs::read_to_string: the text read is kept twice,
\* as the text to patch and as the old text of the diff
ReadFile ==
    /\ pc = "call"
    /\ \/ /\ ret' = Err("NotAbsolute")
          /\ pc' = "returned"
          /\ UNCHANGED <<io, local>>
       \/ /\ io' = [io EXCEPT !.reads = @ + 1]
          /\ ret' = Err("FileOperation")
          /\ pc' = "returned"
          /\ UNCHANGED local
       \/ /\ io' = [io EXCEPT !.reads = @ + 1]
          /\ local' = [local EXCEPT !.current_content = file, !.old_content = file]
          /\ pc' = "read"
          /\ UNCHANGED ret
    /\ UNCHANGED <<source, search, operation, content, result, file, fm, tr, upd>>

\* faulty variant: a failed apply_replacement is ignored and the call goes on
\* with the text it read
ApplyPatch_ignores_failure ==
    /\ pc = "read"
    /\ result' = apply_replacement(local.current_content, search, operation, content)
    /\ \/ /\ result'.kind # "Ok"
          /\ local' = [local EXCEPT !.diff = <<local.old_content, local.current_content>>]
          /\ pc' = "patched"
          /\ UNCHANGED ret
       \/ /\ result'.kind = "Ok"
          /\ local' = [local EXCEPT !.current_content = result'.text]
          /\ ret' = Err("DisplayPath")
          /\ pc' = "returned"
       \/ /\ result'.kind = "Ok"
          /\ local' = [local EXCEPT !.current_content = result'.text,
                                    !.diff = <<local.old_content, result'.text>>]
          /\ pc' = "patched"
          /\ UNCHANGED ret
    /\ UNCHANGED <<source, search, operation, content, file, io, fm, tr, upd>>

\* apply_replacement on the text read; a failure returns at once, and so does
\* a failure of format_display_path; then the diff of the old and new text
ApplyPatch ==
    /\ pc = "read"
    /\ result' = apply_replacement(local.current_content, search, operation, content)
    /\ \/ /\ result'.kind # "Ok"
          /\ ret' = Err(result'.kind)
          /\ pc' = "returned"
          /\ UNCHANGED local
       \/ /\ result'.kind = "Ok"
          /\ local' = [local EXCEPT !.current_content = result'.text]
          /\ ret' = Err("DisplayPath")
          /\ pc' = "returned"
       \/ /\ result'.kind = "Ok"
          /\ local' = [local EXCEPT !.current_content = result'.text,
                                    !.diff = <<local.old_content, result'.text>>]
          /\ pc' = "patched"
          /\ UNCHANGED ret
    /\ UNCHANGED <<source, search, operation, content, file, io, fm, tr, upd>>

\* faulty variant: the outcome of the write is not looked at
WriteFile_ignores_failure ==
    /\ pc = "patched"
    /\ io' = [io EXCEPT !.writes = Append(@, local.current_content)]
    /\ \/ /\ file' = local.current_content
          /\ pc' = "written"
          /\ UNCHANGED ret
       \/ /\ pc' = "written"
          /\ UNCHANGED <<file, ret>>
    /\ UNCHANGED <<source, search, operation, content, result, local, fm, tr, upd>>

\* file_write_service().write(path, current_content): one write is issued; it
\* stores the new text or fails
WriteFile ==
    /\ pc = "patched"
    /\ io' = [io EXCEPT !.writes = Append(@, local.current_content)]
    /\ \/ /\ file' = local.current_content
          /\ pc' = "written"
          /\ UNCHANGED ret
       \/ /\ ret' = Err("Write")
          /\ pc' = "returned"
          /\ UNCHANGED file
    /\ UNCHANGED <<source, search, operation, content, result, local, fm, tr, upd>>

\* the response data (path, total_chars, the warning of syn::validate if any),
\* then the title is sent to the context
SendTitle ==
    /\ pc = "written"
    /\ \E warned \in BOOLEAN :
          LET tool_data == with_total_chars(patch(ThePath), Len(local.current_content))
          IN  local' = [local EXCEPT !.tool_data =
                            IF warned THEN with_warning(tool_data, "syntax") ELSE tool_data]
    /\ \/ /\ io' = [io EXCEPT !.sent = Append(@, "title")]
          /\ pc' = "titled"
          /\ UNCHANGED ret
       \/ /\ ret' = Err("Send")
          /\ pc' = "returned"
          /\ UNCHANGED io
    /\ UNCHANGED <<source, search, operation, content, result, file, fm, tr, upd>>

\* the diff is sent to the context, then the response is returned
SendDiff ==
    /\ pc = "titled"
    /\ \/ /\ io' = [io EXCEPT !.sent = Append(@, "diff")]
          /\ local' = [local EXCEPT !.response = <<local.tool_data, local.diff>>]
          /\ ret' = Returned
          /\ pc' = "returned"
       \/ /\ ret' = Err("Send")
          /\ pc' = "returned"
          /\ UNCHANGED <<io, local>>
    /\ UNCHANGED <<source, search, operation, content, result, file, fm, tr, upd>>

NextCall == ReadFile \/ ApplyPatch \/ WriteFile \/ SendTitle \/ SendDiff

SpecCall == InitCall /\ [][NextCall]_vars

(* ---------------- to_front_matter and from_front_matter ----------------- *)

\* the variables of apply_replacement and of call while neither is modelled
PatchOff ==
    /\ source = <<>>
    /\ search = <<>>
    /\ content = <<>>
    /\ operation = "Replace"
    /\ result = NotExecuted
    /\ pc = "off"

CallOff ==
    /\ file = <<>>
    /\ io = NoIo
    /\ local = NoLocals
    /\ ret = Pending

\* every sequence over S of at most n elements
SeqsUpTo(S, n) == UNION {[1..k -> S] : k \in 0..n}

\* lines put together with a line break between two of them
RECURSIVE JoinLines(_)
JoinLines(lines) ==
    IF lines = <<>> THEN <<>>
    ELSE IF Len(lines) = 1 THEN lines[1]
    ELSE lines[1] \o <<NL>> \o JoinLines(Tail(lines))

\* the contents: lines that are empty, "x" or "---"
ContentLines == {<<>>, <<Ch("x")>>, <<Dash, Dash, Dash>>}
Contents == {JoinLines(ls) : ls \in SeqsUpTo(ContentLines, MaxLines)}

\* the data: every variant, with a path that reads as a number too, each
\* optional field unset or set, and no or one metadata entry, whose key may be
\* the name of a field or of the tag
Paths == {"/f", "1"}
MetaKeys == {"encoding", "path", "type"}
MetaValues == {Str("utf-8"), Num(0), Null}

Bases == {generic} \cup UNION {{file_read(p), file_write(p), shell(p), patch(p)} : p \in Paths}

Filled(d) ==
    {d} \cup {with_total_lines(d, n) : n \in 0..MaxNum}
        \cup {with_bytes_written(d, n) : n \in 0..MaxNum}
        \cup {with_was_update(d, b) : b \in BOOLEAN}
        \cup {with_exit_code(d, n) : n \in 0..MaxNum}
        \cup {with_total_chars(d, n) : n \in 0..MaxNum}
        \cup {with_warning(d, w) : w \in {"syntax", "null"}}

Datas ==
    UNION {{d} \cup {with_metadata(d, k, v) : k \in MetaKeys, v \in MetaValues} :
            d \in UNION {Filled(b) : b \in Bases}}

\* the texts given to from_front_matter: an opening delimiter or something
\* else, lines, a closing delimiter or something else, and a content
Openers == {<<>>, Delim, <<Dash, Dash, NL>>, <<Ch("x")>> \o Delim}
BodyLines ==
    {<<>>, <<Ch("x")>>,
     <<Line("type", yaml_scalar(Str("generic")))>>,
     <<Line("type", yaml_scalar(Str("file_read")))>>,
     <<Line("path", yaml_scalar(Str("/f")))>>}
Bodies == {JoinLines(ls) : ls \in SeqsUpTo(BodyLines, MaxBodyLines)}
Closers == {EndDelim, <<NL, Dash, Dash, Dash>>, Delim, <<>>}
GivenTexts ==
    {o \o b \o c \o t : o \in Openers, b \in Bodies, c \in Closers, t \in Contents}

InitFm ==
    /\ PatchOff
    /\ CallOff
    /\ tr = NoTr
    /\ upd = NoUpd
    /\ \/ fm \in [stage : {"start"}, given : {FALSE}, data : Datas, content : Contents,
                   text : {<<>>}, out : {NoFm.out}]
       \/ fm \in [stage : {"text"}, given : {TRUE}, data : {NoData}, content : {<<>>},
                   text : GivenTexts, out : {NoFm.out}]

\* d.to_front_matter(content)
ToFrontMatter ==
    /\ fm.stage = "start"
    /\ fm' = [fm EXCEPT !.stage = "text", !.text = to_front_matter(fm.data, fm.content)]
    /\ UNCHANGED <<patchVars, callVars, tr, upd>>

\* ToolResponseData::from_front_matter(text)
FromFrontMatter ==
    /\ fm.stage = "text"
    /\ fm' = [fm EXCEPT !.stage = "parsed", !.out = from_front_matter(fm.text)]
    /\ UNCHANGED <<patchVars, callVars, tr, upd>>

NextFm == ToFrontMatter \/ FromFrontMatter

SpecFm == InitFm /\ [][NextFm]_vars

(* ---------------------- the calls on a ToolResult ----------------------- *)

ToolNames == {"forge_tool_fs_patch"}
CallIds == {"c1"}
ResultContents == {<<>>, <<Ch("x")>>}
ResultDatas == {generic, with_total_chars(patch("/f"), 1)}

\* the causes of an anyhow::Error: the error itself, then what caused it
Causes == {"outer", "inner"}
Chains == UNION {[1..k -> Causes] : k \in 1..MaxCauses}

InitTr ==
    /\ PatchOff
    /\ CallOff
    /\ fm = NoFm
    /\ upd = NoUpd
    /\ \E n \in ToolNames :
       \E t \in {new(n)} \cup {from(n, i) : i \in {NoCallId} \cup {SomeCallId(c) : c \in CallIds}} :
            tr = [NoTr EXCEPT !.self = t, !.before = t]

\* a builder call on the ToolResult that has made it what `after` is
Called(op, c, chain, after) ==
    /\ tr.calls < MaxCalls
    /\ ~tr.shown
    /\ tr' = [tr EXCEPT !.self = after,
                        !.calls = @ + 1,
                        !.outcome = IF op \in {"success", "failure"} THEN op ELSE @,
                        !.last = [op |-> op, c |-> c, chain |-> chain],
                        !.before = tr.self]
    /\ UNCHANGED <<patchVars, callVars, fm, upd>>

Success == \E c \in ResultContents : Called("success", c, <<>>, success(tr.self, c))

Failure == \E chain \in Chains : Called("failure", <<>>, chain, failure(tr.self, chain))

WithData == \E d \in ResultDatas : Called("with_data", <<>>, <<>>, with_data(tr.self, d))

WithFrontmatterResponse ==
    \E d \in ResultDatas, c \in ResultContents :
        Called("with_frontmatter_response", c, <<>>, with_frontmatter_response(tr.self, d, c))

CallId == \E i \in CallIds : Called("call_id", <<>>, <<>>, call_id(tr.self, i))

\* format!("{}", result)
DisplayResult ==
    /\ ~tr.shown
    /\ tr' = [tr EXCEPT !.shown = TRUE, !.text = Display(tr.self)]
    /\ UNCHANGED <<patchVars, callVars, fm, upd>>

NextTr ==
    \/ Success
    \/ Failure
    \/ WithData
    \/ WithFrontmatterResponse
    \/ CallId
    \/ DisplayResult

SpecTr == InitTr /\ [][NextTr]_vars

(* ----------------------- the calls of update_config --------------------- *)

Frequencies == {"daily", "weekly", "never"}
Updates ==
    {NoUpdate} \cup {SomeUpdate(f, a) : f \in {"none"} \cup Frequencies,
                                        a \in {"none", "true", "false"}}

InitUpd ==
    /\ PatchOff
    /\ CallOff
    /\ fm = NoFm
    /\ tr = NoTr
    /\ \E b \in Updates : upd = [NoUpd EXCEPT !.base = b, !.before = b]

\* update_config(&mut base, other)
UpdateConfig ==
    /\ upd.calls < MaxUpdates
    /\ \E other \in Updates :
         upd' = [base |-> update_config(upd.base, other), other |-> other,
                 before |-> upd.base, calls |-> upd.calls + 1, again |-> FALSE]
    /\ UNCHANGED <<patchVars, callVars, fm, tr>>

\* update_config(&mut base, other) with the other of the call before
UpdateConfigAgain ==
    /\ upd.calls \in 1..(MaxUpdates - 1)
    /\ upd' = [upd EXCEPT !.base = update_config(upd.base, upd.other),
                          !.before = upd.base,
                          !.calls = @ + 1,
                          !.again = TRUE]
    /\ UNCHANGED <<patchVars, callVars, fm, tr>>

NextUpd == UpdateConfig \/ UpdateConfigAgain

SpecUpd == InitUpd /\ [][NextUpd]_vars

(* --------------------- vocabulary of the properties --------------------- *)

Done == pc = "done"

\* source[a:b], the bytes at offsets a .. b-1
Sub(s, a, b) == [k \in 1..(b - a) |-> s[a + k]]

\* every byte offset at which p occurs in s
Occ(s, p) == {i \in 0..(Len(s) - Len(p)) : Sub(s, i, i + Len(p)) = p}

Present(s, p) == Occ(s, p) # {}

\* the smallest offset at which p occurs in s
First(s, p) == CHOOSE i \in Occ(s, p) : \A j \in Occ(s, p) : i <= j

\* the leftmost occurrence of p in s as a span [lo, hi)
Span(s, p) == [lo |-> First(s, p), hi |-> First(s, p) + Len(p)]

\* two spans share a byte
Intersect(m, t) == (m.lo .. (m.hi - 1)) \cap (t.lo .. (t.hi - 1)) # {}

\* two spans that share no byte and start at different offsets, so that one
\* of them is the earlier-starting and the other the later-starting
Disjoint(m, t) == ~Intersect(m, t) /\ m.lo # t.lo

\* the two spans exchanged, everything else of s kept in place
Exchanged(s, m, t) ==
    LET E == IF m.lo < t.lo THEN m ELSE t
        L == IF m.lo < t.lo THEN t ELSE m
    IN  Sub(s, 0, E.lo) \o Sub(s, L.lo, L.hi) \o Sub(s, E.hi, L.lo)
            \o Sub(s, E.lo, E.hi) \o Sub(s, L.hi, Len(s))

\* a Swap call whose search is non-empty and whose two patterns are both found
SwapBothFound ==
    /\ Done
    /\ operation = "Swap"
    /\ search # <<>>
    /\ Present(source, search)
    /\ Present(source, content)

(* -------------------------------- claims -------------------------------- *)

\* C1: Swap, disjoint case. For a non-empty search whose leftmost occurrence M
\* and the leftmost occurrence T of content do not overlap, the call succeeds
\* and returns source with exactly the two spans exchanged:
\* source[:E.start] + source[L] + source[E.end:L.start] + source[E] + source[L.end:].
C1_SwapDisjoint ==
    (SwapBothFound /\ Disjoint(Span(source, search), Span(source, content)))
        => result = Ok(Exchanged(source, Span(source, search), Span(source, content)))

\* a disjoint swap with the target first, a second occurrence of the search
\* text elsewhere and a multi-byte character in the source
C1_Witness ==
    /\ SwapBothFound
    /\ content # <<>>
    /\ Disjoint(Span(source, search), Span(source, content))
    /\ First(source, content) < First(source, search)
    /\ Cardinality(Occ(source, search)) >= 2
    /\ result.kind = "Ok"
    /\ result.text # source

\* C2: overlap degrades to replace. When both patterns occur and their leftmost
\* byte ranges overlap (they share a byte, or start at the same offset), Swap
\* succeeds and gives what Replace gives; it is never a failure.
C2_OverlapIsReplace ==
    (SwapBothFound /\ ~Disjoint(Span(source, search), Span(source, content)))
        => /\ result.kind = "Ok"
           /\ result = apply_replacement(source, search, "Replace", content)
           /\ result.text = Sub(source, 0, First(source, search)) \o content
                    \o Sub(source, First(source, search) + Len(search), Len(source))

\* an overlapping swap whose target starts before the match
C2_Witness ==
    /\ SwapBothFound
    /\ Intersect(Span(source, search), Span(source, content))
    /\ First(source, content) < First(source, search)
    /\ result.kind = "Ok"

\* C3: failure on absence. For every operation and content, a non-empty search
\* that does not occur in source gives NoMatch carrying exactly search, also
\* for Swap when content does not occur either.
C3_NoMatch ==
    (Done /\ search # <<>> /\ ~Present(source, search))
        => result = NoMatch(search)

\* a Swap where neither pattern occurs
C3_Witness ==
    /\ Done
    /\ operation = "Swap"
    /\ search # <<>>
    /\ ~Present(source, search)
    /\ ~Present(source, content)
    /\ search # content
    /\ result.kind = "NoMatch"

\* C4: Swap target absence. NoSwapTarget is returned if and only if the
\* operation is Swap, search is non-empty and occurs, and content does not
\* occur; it carries exactly content.
C4_NoSwapTarget ==
    Done =>
        /\ result.kind = "NoSwapTarget"
             <=> /\ operation = "Swap"
                 /\ search # <<>>
                 /\ Present(source, search)
                 /\ ~Present(source, content)
        /\ result.kind = "NoSwapTarget" => result = NoSwapTarget(content)

C4_Witness ==
    /\ Done
    /\ result.kind = "NoSwapTarget"
    /\ result.text = content
    /\ Present(source, search)

\* C5: leftmost, first-only Replace. For non-empty search occurring in source,
\* Replace returns source[:i] + content + source[i+len(search):] with i the
\* smallest offset of search; later occurrences stay in the result.
C5_ReplaceLeftmost ==
    (Done /\ operation = "Replace" /\ search # <<>> /\ Present(source, search))
        => result = Ok(Sub(source, 0, First(source, search)) \o content
                \o Sub(source, First(source, search) + Len(search), Len(source)))

\* a Replace on a source holding the search text more than once
C5_Witness ==
    /\ Done
    /\ operation = "Replace"
    /\ search # <<>>
    /\ search # content
    /\ Cardinality(Occ(source, search)) >= 2
    /\ result.kind = "Ok"

\* C6: Prepend and Append are pure insertions at the leftmost match [i, j):
\* Prepend returns source[:i] + content + source[i:], Append returns
\* source[:j] + content + source[j:]; the Append result starts with source up
\* to and including the first occurrence of search, followed by content;
\* deleting the inserted content gives source back and the result is
\* len(source) + len(content) bytes long.
C6_PrependAppendInsert ==
    (Done /\ operation \in {"Prepend", "Append"} /\ search # <<>> /\ Present(source, search))
        => LET i == First(source, search)
               j == i + Len(search)
               at == IF operation = "Prepend" THEN i ELSE j
               r == result.text
           IN  /\ result = Ok(Sub(source, 0, at) \o content \o Sub(source, at, Len(source)))
               /\ Len(r) = Len(source) + Len(content)
               /\ Sub(r, 0, at) \o Sub(r, at + Len(content), Len(r)) = source
               /\ operation = "Append"
                    => Sub(r, 0, j + Len(content)) = Sub(source, 0, i) \o search \o content

\* an Append of non-empty content after a match that is not at the start of a
\* source holding the search text twice
C6_Witness ==
    /\ Done
    /\ operation = "Append"
    /\ search # <<>>
    /\ content # <<>>
    /\ Cardinality(Occ(source, search)) >= 2
    /\ First(source, search) > 0
    /\ result.kind = "Ok"
    /\ Len(result.text) = Len(source) + Len(content)

ValidRange(s, p, r) ==
    r.some => /\ r.start + r.length <= Len(s)
              /\ Sub(s, r.start, r.start + r.length) = p
              /\ is_char_boundary(s, r.start)
              /\ is_char_boundary(s, r.start + r.length)

\* C8: match validity and slicing safety. Every Range find_exact returns is
\* within the source, holds the pattern and lies on character boundaries, and
\* no slice apply_replacement takes is out of range or off a boundary: the
\* call never aborts.
C8_SlicingSafe ==
    /\ ValidRange(source, search, find_exact(source, search))
    /\ ValidRange(source, content, find_exact(source, content))
    /\ result.kind # "Panic"

\* a disjoint swap over multi-byte text: the search holds a two-byte character
\* and is found after the target
C8_Witness ==
    /\ SwapBothFound
    /\ \E k \in 1..Len(search) : IsContinuation(search[k])
    /\ content # <<>>
    /\ Disjoint(Span(source, search), Span(source, content))
    /\ First(source, content) < First(source, search)
    /\ result.kind = "Ok"

\* where the two texts sit in the result of a disjoint swap: the content text
\* in the place of the match, the search text in the place of the target
PlaceOfContent(m, t) == IF m.lo < t.lo THEN m.lo ELSE t.lo + (m.hi - m.lo) + (m.lo - t.hi)
PlaceOfSearch(m, t) == IF m.lo < t.lo THEN m.lo + (t.hi - t.lo) + (t.lo - m.hi) ELSE t.lo

\* the leftmost occurrences of both patterns in the swapped text are the two
\* spans that were just exchanged
SameSpans(r) ==
    /\ Present(r, content)
    /\ Present(r, search)
    /\ First(r, content) = PlaceOfContent(Span(source, search), Span(source, content))
    /\ First(r, search) = PlaceOfSearch(Span(source, search), Span(source, content))

\* C9: Swap is an involution on disjoint ranges. For patterns a, b both present
\* in s with disjoint leftmost occurrences, swapping a with b and then b with a
\* gives s back, provided the leftmost occurrences of b and a in the
\* intermediate text are the two spans just exchanged.
C9_SwapInvolution ==
    (SwapBothFound /\ Disjoint(Span(source, search), Span(source, content)))
        => /\ result.kind = "Ok"
           /\ SameSpans(result.text)
                => apply_replacement(result.text, content, "Swap", search) = Ok(source)

\* a disjoint swap that changed the text and whose patterns are found again in
\* the exchanged places
C9_Witness ==
    /\ SwapBothFound
    /\ Disjoint(Span(source, search), Span(source, content))
    /\ result.kind = "Ok"
    /\ result.text # source
    /\ SameSpans(result.text)
    /\ Len(search) # Len(content)
    /\ First(source, content) < First(source, search)

\* C10: Replace-with-self is the identity. apply(s, p, Replace, p) = s for any
\* s containing p exactly once.
C10_ReplaceSelf ==
    (Done /\ operation = "Replace" /\ content = search
          /\ Cardinality(Occ(source, search)) = 1)
        => result = Ok(source)

\* a Replace of a pattern by itself in the middle of the source
C10_Witness ==
    /\ Done
    /\ operation = "Replace"
    /\ content = search
    /\ search # <<>>
    /\ Cardinality(Occ(source, search)) = 1
    /\ First(source, search) > 0
    /\ First(source, search) + Len(search) < Len(source)
    /\ result = Ok(source)

(* ------------------- claims on ApplyPatchJson::call ---------------------- *)

\* number of characters of a UTF-8 text
CharCount(s) == Cardinality({i \in 1..Len(s) : ~IsContinuation(s[i])})

\* C11: a failed patch leaves the file untouched. If apply_replacement fails
\* with NoMatch or NoSwapTarget, call returns an error, no write is issued,
\* nothing is sent to the context, and the stored text is the text read.
C11_FailedPatchUntouched ==
    result.kind \in {"NoMatch", "NoSwapTarget"}
        => /\ pc = "returned"
           /\ ret = Err(result.kind)
           /\ io.writes = <<>>
           /\ io.sent = <<>>
           /\ io.reads = 1
           /\ file = local.old_content
           /\ file = source

\* a call on a non-empty file whose Swap found the search text but not its target
C11_Witness ==
    /\ pc = "returned"
    /\ result.kind = "NoSwapTarget"
    /\ source # <<>>
    /\ ret.kind = "Err"
    /\ file = source

\* C14: after a successful patch, total_chars of the Patch response equals the
\* number of characters of the new text, multi-byte characters included.
C14_TotalCharsCountsCharacters ==
    ret.kind = "Ok" => local.tool_data.fields.total_chars = Num(CharCount(file))

\* the write of the call has been acknowledged
WriteDone == Len(io.writes) = 1 /\ file = result.text /\ result.kind = "Ok"

\* C17: step order of call. The file is read at most once; apply_replacement
\* runs on exactly the text read; at most one write is issued, of exactly the
\* apply_replacement result; nothing is sent and nothing is returned before
\* that write has succeeded; the diff is of the text read and the new text. A
\* failed send returns an error with the file already holding the new text,
\* and a syntax warning never prevents the write.
C17_StepOrder ==
    /\ io.reads <= 1
    /\ result # NotExecuted
         => /\ io.reads = 1
            /\ local.old_content = source
            /\ result = apply_replacement(source, search, operation, content)
    /\ Len(io.writes) <= 1
    /\ io.writes # <<>> => result.kind = "Ok" /\ io.writes[1] = result.text
    /\ (io.sent # <<>> \/ ret.kind = "Ok" \/ local.response # <<>>) => WriteDone
    /\ local.diff # <<>> => local.diff = <<source, result.text>>
    /\ ret.kind = "Ok"
         => /\ io.sent = <<"title", "diff">>
            /\ local.response = <<local.tool_data, <<source, file>>>>
    /\ ret = Err("Send") => WriteDone /\ Len(io.sent) <= 1
    /\ local.tool_data # NoData
         => /\ WriteDone
            /\ local.tool_data.fields.warning # Null => file = result.text

\* a call that wrote a changed text, got a syntax warning and then failed to
\* send the diff
C17_Witness ==
    /\ pc = "returned"
    /\ ret = Err("Send")
    /\ io.sent = <<"title">>
    /\ local.tool_data # NoData
    /\ local.tool_data.fields.warning # Null
    /\ file # source
    /\ file = result.text

(* ------------------- more claims on apply_replacement -------------------- *)

\* C15: no ties in the disjoint Swap branch. For a non-empty search and a
\* content (possibly empty, located at offset 0) both found in source, when the
\* overlap test is false the two ranges start at different offsets and the
\* earlier-starting one ends at or before the start of the later one, so the
\* middle slice is well formed and the swap succeeds; two ranges with equal
\* starts always take the overlap (Replace) branch.
C15_NoTiesWhenDisjoint ==
    SwapBothFound =>
        LET p == find_exact(source, search)
            t == find_exact(source, content)
        IN  /\ p.some /\ t.some
            /\ ~overlaps(p, t)
                 => /\ p.start # t.start
                    /\ p.start < t.start => end(p) <= t.start
                    /\ t.start < p.start => end(t) <= p.start
                    /\ result = Ok(Exchanged(source, Span(source, search), Span(source, content)))
            /\ p.start = t.start
                 => /\ overlaps(p, t)
                    /\ result = Ok(Sub(source, 0, p.start) \o content
                                        \o Sub(source, end(p), Len(source)))

\* a swap with an empty content whose match starts at offset 0 too: equal
\* starts, resolved as a replacement
C15_Witness ==
    /\ SwapBothFound
    /\ content = <<>>
    /\ First(source, search) = 0
    /\ Len(source) > Len(search)
    /\ overlaps(find_exact(source, search), find_exact(source, content))
    /\ result = Ok(Sub(source, Len(search), Len(source)))

\* C16: Swap with empty content never fails with NoSwapTarget. For a non-empty
\* search found at leftmost range [i, j) and an empty content, the result is
\* source[i:j] + source[:i] + source[j:] when i > 0 and source[j:] when i = 0.
C16_SwapEmptyContent ==
    (Done /\ operation = "Swap" /\ search # <<>> /\ Present(source, search) /\ content = <<>>)
        => LET i == First(source, search)
               j == i + Len(search)
           IN  /\ find_exact(source, content) = Range_new(0, 0)
               /\ result = Ok(IF i > 0
                              THEN Sub(source, i, j) \o Sub(source, 0, i) \o Sub(source, j, Len(source))
                              ELSE Sub(source, j, Len(source)))

\* a swap with an empty content that moved a match from the middle of the
\* source to its start
C16_Witness ==
    /\ Done
    /\ operation = "Swap"
    /\ content = <<>>
    /\ search # <<>>
    /\ Present(source, search)
    /\ First(source, search) > 0
    /\ First(source, search) + Len(search) < Len(source)
    /\ result.kind = "Ok"
    /\ result.text # source

(* ------------------------ claims on front matter ------------------------- *)

\* C12: front-matter round trip. For every data d and content c, an empty c
\* and a c holding the line "---" included, from_front_matter of
\* d.to_front_matter(c) returns d (same variant, same fields) and exactly c.
C12_RoundTrip ==
    (fm.stage = "parsed" /\ ~fm.given)
        => fm.out = [data |-> fm.data, content |-> fm.content]

\* the text opens with the delimiter "---\n"
Opened(text) == Len(text) >= Len(Delim) /\ Sub(text, 0, Len(Delim)) = Delim

\* what follows the opening delimiter
AfterOpening(text) == Sub(text, Len(Delim), Len(text))

\* the text opens with the delimiter and "\n---\n" occurs after it
Closed(text) == Opened(text) /\ Present(AfterOpening(text), EndDelim)

\* the lines between the opening delimiter and the first "\n---\n" after it
BodyOf(text) == Sub(AfterOpening(text), 0, First(AfterOpening(text), EndDelim))

\* what follows the first "\n---\n" after the opening delimiter
AfterClosing(text) ==
    Sub(text, Len(Delim) + First(AfterOpening(text), EndDelim) + Len(EndDelim), Len(text))

\* the lines have no "type" entry, so they are no ToolResponseData
Untyped(body) == \A i \in 1..Len(body) : ~(body[i].kv /\ body[i].k = "type")

\* C18: failure paths of from_front_matter. A text that does not start with
\* "---\n", or has no "\n---\n" after the opening delimiter, gives
\* (None, text); with both delimiters the content is what follows the first
\* "\n---\n" after the opening delimiter, so that later "---" lines stay in
\* it; and it comes with None when the lines in between are no data.
C18_FailurePaths ==
    fm.stage = "parsed" =>
        /\ ~Closed(fm.text) => fm.out = [data |-> NoData, content |-> fm.text]
        /\ Closed(fm.text) =>
            /\ fm.out.content = AfterClosing(fm.text)
            /\ Untyped(BodyOf(fm.text)) => fm.out.data = NoData

\* a given text with both delimiters, lines that are no data, and a second
\* "\n---\n" that stays in the returned content
C18_Witness ==
    /\ fm.stage = "parsed"
    /\ fm.given
    /\ Closed(fm.text)
    /\ Untyped(BodyOf(fm.text))
    /\ Cardinality(Occ(AfterOpening(fm.text), EndDelim)) > 1
    /\ fm.out.data = NoData
    /\ Present(fm.out.content, EndDelim)

(* ------------------------- claims on ToolResult -------------------------- *)

\* "\nERROR:\n", then one line "Caused by: <cause>\n" for each cause, in the
\* order of the chain
ErrorText(chain) ==
    [i \in 1..(3 + 3 * Len(chain)) |->
        IF i \in {1, 3} THEN NL
        ELSE IF i = 2 THEN Ch("ERROR:")
        ELSE IF (i - 4) % 3 = 0 THEN Ch("Caused by: ")
        ELSE IF (i - 4) % 3 = 1 THEN Ch(chain[((i - 4) \div 3) + 1])
        ELSE NL]

\* C13: the status of a ToolResult reflects the last outcome set. After any
\* calls of success, failure, with_data, with_frontmatter_response and
\* call_id, is_error holds exactly if the latest call among success and
\* failure was failure; success(c) makes the content c; failure(err) makes it
\* "\nERROR:\n" and one "Caused by:" line per cause in chain order; with_data
\* and call_id change neither content nor is_error.
C13_StatusReflectsOutcome ==
    /\ tr.self.is_error <=> (tr.outcome = "failure")
    /\ tr.last.op = "success" => tr.self.content = tr.last.c
    /\ tr.last.op = "failure" => tr.self.content = ErrorText(tr.last.chain)
    /\ tr.last.op \in {"with_data", "call_id"} =>
        /\ tr.self.content = tr.before.content
        /\ tr.self.is_error = tr.before.is_error

\* a failure with two causes, then with_data: the error and its text stay
C13_Witness ==
    /\ tr.calls >= 2
    /\ tr.last.op = "with_data"
    /\ tr.outcome = "failure"
    /\ tr.self.is_error
    /\ tr.self.data # NoData
    /\ tr.self.content = ErrorText(<<"outer", "inner">>)

\* the text opens with "---\n" and ends with the content
FrontMatterForm(text, c) ==
    /\ Opened(text)
    /\ Len(text) >= Len(c)
    /\ Sub(text, Len(text) - Len(c), Len(text)) = c

\* the legacy XML form of a result
XmlForm(self) ==
    <<Ch("<forge_tool_result>"), Ch("<forge_tool_name>"), Ch(self.name),
      Ch("</forge_tool_name>"), Ch(IF self.is_error THEN "<e>" ELSE "<success>"),
      Ch("<![CDATA[")>>
    \o self.content
    \o <<Ch("]]>"), Ch(IF self.is_error THEN "</e>" ELSE "</success>"),
         Ch("</forge_tool_result>")>>

\* C19: the format Display chooses. The text is the front-matter form exactly
\* if data is set; otherwise it is the XML form, the content wrapped in <e>
\* when is_error holds and in <success> when not. With data set, the result
\* that differs in is_error only is displayed as the same text.
C19_DisplayFormat ==
    tr.shown =>
        /\ FrontMatterForm(tr.text, tr.self.content) <=> (tr.self.data # NoData)
        /\ tr.self.data = NoData => tr.text = XmlForm(tr.self)
        /\ tr.self.data # NoData =>
            tr.text = Display([tr.self EXCEPT !.is_error = ~tr.self.is_error])

\* a failed result with data set is displayed
C19_Witness ==
    /\ tr.shown
    /\ tr.self.data # NoData
    /\ tr.self.is_error
    /\ tr.self.content # <<>>
    /\ FrontMatterForm(tr.text, tr.self.content)

(* ------------------------ claims on update_config ------------------------ *)

\* the value of a field after the merge
Merged(mine, theirs) == IF theirs # "none" THEN theirs ELSE mine

\* C20: update_config merges field by field. With other None, base stays as
\* it is, None included; with other Some, base becomes Some, and each of
\* check_frequency and auto_update is other's value if other sets it and the
\* value base had if not (None when base was None). The same other applied
\* twice gives the base that applying it once gives.
C20_MergeFieldByField ==
    upd.calls > 0 =>
        /\ ~upd.other.some => upd.base = upd.before
        /\ upd.other.some =>
            /\ upd.base.some
            /\ upd.base.check_frequency =
                 Merged(upd.before.check_frequency, upd.other.check_frequency)
            /\ upd.base.auto_update =
                 Merged(upd.before.auto_update, upd.other.auto_update)
        /\ upd.again => upd.base = upd.before

\* base had both fields set, other sets one of them, and is applied twice
C20_Witness ==
    /\ upd.again
    /\ upd.other.some
    /\ upd.other.check_frequency = "none"
    /\ upd.other.auto_update # "none"
    /\ upd.base.check_frequency # "none"
    /\ upd.base.auto_update = upd.other.auto_update

====
